---- MODULE Spec2Model ----
(***************************************************************************)
(* CamWork legacy scripts: the relocation loops of model_sort v2.3,        *)
(* raw_sort v1 / v1.3 and date_sort v1.2, over an explicit file system.    *)
(*                                                                         *)
(* A path is a sequence of components below the directory the script       *)
(* works in (CAMERAS for model_sort, a camera folder for date_sort, a      *)
(* thematic folder for raw_sort).  A file is a record: its byte content,   *)
(* whether it can be opened for reading, and the metadata exiftool reads   *)
(* from it.  SHA-256 is taken to be collision free: the digest of a file   *)
(* is its content.  os.rename within the CAMERAS tree is all-or-nothing.   *)
(***************************************************************************)
EXTENDS Integers, Sequences, FiniteSets, TLC

VARIABLES
    script,           \* which script the user runs
    fs,               \* path -> file record (NoFile where nothing is)
    dirs,             \* the directories that exist
    run,              \* 1: first run, 2: the script is run again
    pc,               \* "start", "loop", "done", "aborted"
    todo,             \* raw_sort: directories still to process
    cur,              \* raw_sort: directory being processed
    created,          \* raw_sort: local 'created' of procesar_directorio
    listing,          \* the os.listdir() snapshot being iterated
    idx,              \* position in listing
    moved,            \* model_sort: list 'moved'
    unmapped,         \* model_sort: list 'unmapped'
    duplicates,       \* list 'duplicates'
    scanned_cameras,  \* model_sort: set 'scanned_cameras'
    processed_count,  \* model_sort: local 'processed_count'
    folders_report,   \* raw_sort, date_sort: dict 'folders_report'
    log,              \* the records written through logging
    fs0,              \* history: the file system before the first run
    fsRun,            \* history: the file system when the current run began
    prev,             \* history: what the first run recorded
    faults,           \* history: how many mkdir, getsize or move calls have failed
    files_by_folder,  \* dup_search: dict 'files_by_folder'
    camera_to_names,  \* dup_search: dict 'camera_to_names'
    duplicates_report,\* dup_search: dict 'duplicates_report'
    hashed,           \* history: the paths dup_search has called sha256_of_file on
    hash_calls,       \* history: path -> calls of sha256_of_file on it in this run
    fecha_captura,    \* date_sort: the capture date being placed
    carpeta_destino,  \* date_sort: the folder name computed for it
    exiftool,         \* whether the exiftool binary is found on the PATH
    models,           \* scan_exif: set 'models'
    extensions,       \* scan_exif: set 'extensions'
    video_no_model,   \* scan_exif: list 'video_no_model'
    seen_exts,        \* scan_exif: local 'seen_exts' of phase 2
    data,             \* path -> the bytes of the file there, for sha256_of_file
    digests,          \* path -> what sha256_of_file returned for it
    pdf_metrics       \* dup_search: the figures generar_reporte_pdf prints

\* The state of the duplicate search, which the relocation scripts leave alone.
dup_search_vars == <<files_by_folder, camera_to_names, duplicates_report, hashed>>

\* The state of the steps that are checked one by one, apart from a run of a
\* relocation script or of the duplicate search.
other_vars == <<fecha_captura, carpeta_destino, exiftool, models, extensions,
                video_no_model, seen_exts, data, digests, pdf_metrics>>

vars == <<script, fs, dirs, run, pc, todo, cur, created, listing, idx, moved,
          unmapped, duplicates, scanned_cameras, processed_count,
          folders_report, log, fs0, fsRun, prev, faults, dup_search_vars,
          hash_calls, other_vars>>

-----------------------------------------------------------------------------
(* Bounds of the model *)

MaxFiles == 3          \* files in the tree before the first run
MaxUnreadable == 1     \* of which that many cannot be opened
MaxFaults == 1         \* system calls that fail in one history
MaxBytes == 5          \* length of a file whose digest is computed chunk by chunk
ChunkSize == 2         \* bytes per read in the model (chunk_size, 8192 in the code)

Scripts == {"model_sort", "raw_sort_v1.3", "raw_sort_v1", "date_sort"}

\* File names, in ascending (lexicographic) order.
SortedNames == <<"a.cr2", "b.cr2">>
Names == {SortedNames[i] : i \in 1..Len(SortedNames)}
Contents == {"X", "Y"}

None == "None"

-----------------------------------------------------------------------------
(* Dates *)

NoDate == [year |-> 0, month |-> 0, day |-> 0, hour |-> 0]

\* Capture dates the files of the model carry.
Dates == { [year |-> 2024, month |-> 1, day |-> 1, hour |-> 7],
           [year |-> 2024, month |-> 1, day |-> 1, hour |-> 8] }

IsLeap(y) == (y % 4 = 0 /\ y % 100 # 0) \/ y % 400 = 0

DaysInMonth(y, m) ==
    IF m = 2 THEN (IF IsLeap(y) THEN 29 ELSE 28)
    ELSE IF m \in {4, 6, 9, 11} THEN 30 ELSE 31

\* fecha - timedelta(days=1)
MinusOneDay(fecha) ==
    IF fecha.day > 1 THEN [fecha EXCEPT !.day = fecha.day - 1]
    ELSE IF fecha.month > 1
         THEN [fecha EXCEPT !.month = fecha.month - 1,
                            !.day = DaysInMonth(fecha.year, fecha.month - 1)]
         ELSE [fecha EXCEPT !.year = fecha.year - 1, !.month = 12, !.day = 31]

\* Mutant: the hour 08:00 itself still counts for the day before.
ajustar_mes_hasta_las_ocho(fecha) ==
    IF fecha.day = 1 /\ fecha.hour <= 8 THEN MinusOneDay(fecha) ELSE fecha

ajustar_mes_por_horario_especial(fecha) ==
    IF fecha.day = 1 /\ fecha.hour < 8 THEN MinusOneDay(fecha) ELSE fecha

\* f"{fecha.year}.{fecha.month:02d}"
generar_nombre_carpeta(fecha) ==
    ToString(fecha.year) \o "." \o
    (IF fecha.month < 10 THEN "0" ELSE "") \o ToString(fecha.month)

-----------------------------------------------------------------------------
(* Configuration of the scripts *)

NoModel == ""

\* model_sort: MODEL_TO_FOLDER (the entries the model's files use)
MODEL_TO_FOLDER ==
    [m \in {"ILCE-6000", "WB30F", "WB30F/WB31F/WB32F"} |->
        CASE m = "ILCE-6000"          -> "Sony ILCE-6000"
          [] m = "WB30F"              -> "Samsung WB30F"
          [] m = "WB30F/WB31F/WB32F"  -> "Samsung WB30F"]

\* EXIF Model values the files of the model carry: none, unmapped, mapped.
Models == {NoModel, "NIKON D90", "ILCE-6000", "WB30F"}

\* re.sub(r'[<>:"/\\|?*]', '_', name): no folder of MODEL_TO_FOLDER holds
\* one of these characters, so each folder name maps to itself.
sanitize_folder_name(name) ==
    CASE name = "Sony ILCE-6000" -> "Sony ILCE-6000"
      [] name = "Samsung WB30F"  -> "Samsung WB30F"

\* os.path.splitext(name)[1].lower()
\* Mutant: every name is taken to end in an allow-listed extension.
ExtLower_cr2(name) == ".cr2"

ExtLower(name) ==
    CASE name \in {"a.cr2", "b.cr2", "c.cr2"} -> ".cr2"
      [] name \in {"IMG.JPG", "img.jpg"} -> ".jpg"
      [] name = "n.txt" -> ".txt"
      [] name = "v.mp4" -> ".mp4"
      [] name = "d.ini" -> ".ini"
      [] OTHER -> ""

PHOTO_EXTENSIONS_model == {".arw", ".cr2", ".cr3", ".jpg", ".mov", ".mp4", ".mts"}
PHOTO_EXTENSIONS_date  == {".jpg", ".jpeg", ".png", ".cr2", ".arw", ".nef", ".raf", ".heic"}
RAW_EXTENSIONS         == {".cr2", ".cr3", ".arw"}
RAW_EXTENSIONS_v1      == {".cr2", ".arw"}

\* d.lower()
Lower(d) ==
    CASE d = "RAW" -> "raw" [] d = "S" -> "s" [] d = "IMG.JPG" -> "img.jpg" [] OTHER -> d

-----------------------------------------------------------------------------
(* The file system *)

NoFile == [content |-> "-", readable |-> FALSE, model |-> "-", fecha |-> NoDate]

Root == << >>

\* Folders a script moves into, below the directory it works in.
Folders(s) ==
    CASE s = "model_sort" -> {"Sony ILCE-6000", "Samsung WB30F"}
      [] s = "date_sort"  -> {generar_nombre_carpeta(ajustar_mes_por_horario_especial(d)) : d \in Dates}
      [] OTHER            -> {"RAW"}

\* A subfolder inside a destination folder (os.walk descends into it).
SubFolder == "sub"
\* raw_sort: a sub-thematic folder of the thematic folder.
SubTheme == "S"

\* Every path a script can read or write.
PathsOf(s) ==
    {<<n>> : n \in Names}
    \cup {<<f, n>> : f \in Folders(s), n \in Names}
    \cup (IF s = "date_sort" THEN {}
          ELSE {<<f, SubFolder, n>> : f \in Folders(s), n \in Names})
    \cup (IF s \in {"raw_sort_v1.3", "raw_sort_v1"}
          THEN {<<SubTheme, n>> : n \in Names} \cup {<<SubTheme, "RAW", n>> : n \in Names}
          ELSE {})

\* The paths that can hold a file before the first run.  Two files can lie
\* side by side in the directory a script reads and in the folders it moves
\* into; model_sort's second folder, the subfolders and the sub-thematic
\* folder hold at most one.
InitialPaths(s) ==
    {<<n>> : n \in Names}
    \cup {<<f, n>> : f \in Folders(s) \ {"Samsung WB30F"}, n \in Names}
    \cup (IF s = "model_sort" THEN {<<"Samsung WB30F", SortedNames[1]>>} ELSE {})
    \cup (IF s = "date_sort" THEN {}
          ELSE {<<f, SubFolder, SortedNames[1]>> : f \in Folders(s) \ {"Samsung WB30F"}})
    \cup (IF s \in {"raw_sort_v1.3", "raw_sort_v1"}
          THEN {<<SubTheme, SortedNames[1]>>, <<SubTheme, "RAW", SortedNames[1]>>}
          ELSE {})

Parent(p) == SubSeq(p, 1, Len(p) - 1)
Base(p) == p[Len(p)]
Join(d, n) == d \o <<n>>

IsPrefix(d, p) == Len(d) <= Len(p) /\ SubSeq(p, 1, Len(d)) = d
Ancestors(p) == {SubSeq(p, 1, k) : k \in 0..(Len(p) - 1)}

isfile(f, p) == p \in DOMAIN f /\ f[p] # NoFile
FilesOf(f) == {p \in DOMAIN f : f[p] # NoFile}

\* Files directly in directory d.
FilesIn(f, d) == {p \in FilesOf(f) : Parent(p) = d}

\* os.walk(d): every file in d and below.
walk(f, d) == {p \in FilesOf(f) : Len(p) > Len(d) /\ IsPrefix(d, p)}

\* sha256_of_file: the digest, or None when the file cannot be read.
sha256_of_file(f, p) ==
    IF isfile(f, p) /\ f[p].readable THEN f[p].content ELSE None

\* Mutant: the source is unlinked and nothing is written to dst.
shutil_move_lossy(f, src, dst) == [f EXCEPT ![src] = NoFile]

\* shutil.move(src, dst) that succeeds: os.rename replaces whatever is at dst.
shutil_move(f, src, dst) == [f EXCEPT ![dst] = f[src], ![src] = NoFile]

Perms(S) ==
    {s \in [1..Cardinality(S) -> S] : \A i, j \in 1..Cardinality(S) : s[i] = s[j] => i = j}

Append2(s, a, b) == Append(Append(s, a), b)

\* A log record about 'path'; a record of a move names where the file went.
Entry(level, event, path) == [level |-> level, event |-> event, path |-> path, dest |-> << >>]
Movido(path, dest) == [level |-> "INFO", event |-> "Movido", path |-> path, dest |-> dest]

-----------------------------------------------------------------------------
(* Initial states: a tree of at most MaxFiles files *)

IsRaw(s) == s \in {"raw_sort_v1.3", "raw_sort_v1"}

\* Directories whose files a script relocates.
SourceDirs(s) == IF IsRaw(s) THEN {Root, <<SubTheme>>} ELSE {Root}

\* Directories a script relocates into.
DestDirs(s) ==
    IF IsRaw(s) THEN {<<"RAW">>, <<SubTheme, "RAW">>}
    ELSE {<<f>> : f \in Folders(s)}

\* What a file at path p can be before the first run.  Only the files a
\* script reads metadata from carry any, and only the scripts that hash
\* meet files they cannot read.
FileRecs(s, p) ==
    [content  : Contents,
     readable : IF s \in {"model_sort", "raw_sort_v1.3"} THEN BOOLEAN ELSE {TRUE},
     model    : IF s = "model_sort" /\ Parent(p) = Root THEN Models ELSE {NoModel},
     fecha    : IF s = "date_sort" /\ Parent(p) = Root THEN Dates ELSE {NoDate}]

AllRecs(s) == UNION {FileRecs(s, p) : p \in PathsOf(s)}

EmptyMap == [d \in {} |-> FALSE]

Put(m, k, v) == [x \in (DOMAIN m) \cup {k} |-> IF x = k THEN v ELSE m[x]]

\* generar_reporte_pdf has printed nothing.
NoMetrics ==
    [written |-> FALSE, total_groups |-> 0, total_dups |-> 0,
     groups |-> EmptyMap, dup_files |-> EmptyMap]

\* Nothing has been computed yet by the steps checked one by one.
InitOther ==
    /\ fecha_captura = NoDate
    /\ carpeta_destino = ""
    /\ exiftool = TRUE
    /\ models = {}
    /\ extensions = {}
    /\ video_no_model = <<>>
    /\ seen_exts = {}
    /\ data = EmptyMap
    /\ digests = EmptyMap
    /\ pdf_metrics = NoMetrics

NoRecord == [moved |-> <<>>, unmapped |-> <<>>, duplicates |-> <<>>, log |-> <<>>]

\* A tree of files and a script that has done nothing yet.
InitTree ==
    /\ script \in Scripts
    /\ \E placed \in SUBSET InitialPaths(script) :
         /\ Cardinality(placed) <= MaxFiles
         /\ \E g \in [placed -> AllRecs(script)] :
              /\ \A p \in placed : g[p] \in FileRecs(script, p)
              /\ Cardinality({p \in placed : ~g[p].readable}) <= MaxUnreadable
              /\ fs = [p \in PathsOf(script) |-> IF p \in placed THEN g[p] ELSE NoFile]
         /\ dirs = {Root} \cup UNION {Ancestors(p) : p \in placed}
    /\ run = 1
    /\ pc = "start"
    /\ todo = <<>>
    /\ cur = Root
    /\ created = FALSE
    /\ listing = <<>>
    /\ idx = 1
    /\ moved = <<>>
    /\ unmapped = <<>>
    /\ duplicates = <<>>
    /\ scanned_cameras = {}
    /\ processed_count = 0
    /\ folders_report = EmptyMap
    /\ log = <<>>
    /\ fs0 = fs
    /\ fsRun = fs
    /\ prev = NoRecord
    /\ faults = 0
    /\ files_by_folder = EmptyMap
    /\ camera_to_names = EmptyMap
    /\ duplicates_report = EmptyMap
    /\ hashed = {}
    /\ hash_calls = EmptyMap

Init == InitTree /\ InitOther

-----------------------------------------------------------------------------
(* model_sort v2.3 *)

\* Mutant: a file without the tag is taken for one of the first mapped model.
get_camera_model_guess(f, p) == IF f[p].model = NoModel THEN "ILCE-6000" ELSE f[p].model

\* exiftool -Model -s3: the tag, or None when it is absent or exiftool fails
\* (subprocess.run raises FileNotFoundError without the binary, and the
\* function catches every Exception).
get_camera_model(f, p) ==
    IF ~exiftool \/ f[p].model = NoModel THEN None ELSE f[p].model

\* Mutant: a source that hashes is never found in the destination folder.
is_duplicate_never(f, dest_folder, src_path) ==
    [dup |-> sha256_of_file(f, src_path) = None,
     hashfail |-> sha256_of_file(f, src_path) = None]

\* Mutant: only the files directly in dest_folder are compared (os.listdir
\* in place of os.walk).
is_duplicate_flat(f, dest_folder, src_path) ==
    LET src_hash == sha256_of_file(f, src_path)
    IN IF src_hash = None
       THEN [dup |-> TRUE, hashfail |-> TRUE]
       ELSE [dup |-> \E existing \in FilesIn(f, dest_folder) :
                        sha256_of_file(f, existing) = src_hash,
             hashfail |-> FALSE]

\* is_duplicate(dest_folder, src_path): 'hashfail' is the branch that could
\* not hash the source (the caller appends to its list and gets True).
is_duplicate(f, dest_folder, src_path) ==
    LET src_hash == sha256_of_file(f, src_path)
    IN IF src_hash = None
       THEN [dup |-> TRUE, hashfail |-> TRUE]
       ELSE [dup |-> \E existing \in walk(f, dest_folder) :
                        sha256_of_file(f, existing) = src_hash,
             hashfail |-> FALSE]

\* The paths one call of is_duplicate passes to sha256_of_file: the source,
\* and the files os.walk(dest_folder) comes to, in whatever order, up to the
\* first whose digest is the source's.
is_duplicate_reads(f, dest_folder, src_path) ==
    LET src_hash == sha256_of_file(f, src_path)
        alike    == {e \in walk(f, dest_folder) : sha256_of_file(f, e) = src_hash}
        others   == walk(f, dest_folder) \ alike
    IN IF src_hash = None THEN {{src_path}}
       ELSE IF alike = {} THEN {{src_path} \cup others}
       ELSE {{src_path, m} \cup S : m \in alike, S \in SUBSET others}

\* hash_calls after sha256_of_file was called once on each path of S.
Tally(h, S) ==
    [p \in (DOMAIN h) \cup S |->
        (IF p \in DOMAIN h THEN h[p] ELSE 0) + (IF p \in S THEN 1 ELSE 0)]

\* State a loop iteration starts from, as a record the iteration updates;
\* 'checked' holds the call of is_duplicate the iteration made, if any.
Before ==
    [fs |-> fs, dirs |-> dirs, moved |-> moved, unmapped |-> unmapped,
     duplicates |-> duplicates, scanned |-> scanned_cameras,
     processed |-> processed_count, report |-> folders_report, log |-> log,
     pc |-> "loop", fault |-> FALSE, checked |-> {}]

\* One iteration of the loop of classify_images over 'item'.  mkOk and mvOk
\* say whether os.makedirs and shutil.move succeed when they are called.
classify_one(item, mkOk, mvOk) ==
    LET src    == Join(Root, item)
        model  == get_camera_model(fs, src)
        folder == IF model \in DOMAIN MODEL_TO_FOLDER THEN MODEL_TO_FOLDER[model] ELSE None
        b1     == [Before EXCEPT !.processed = @ + 1]
    IN
    IF ~isfile(fs, src) THEN Before
    ELSE IF ExtLower(item) \notin PHOTO_EXTENSIONS_model
    THEN [Before EXCEPT !.log = Append(@, Entry("INFO", "Omite", src))]
    ELSE IF model = None
    THEN [b1 EXCEPT !.unmapped = Append(@, src),
                    !.log = Append(@, Entry("ERROR", "SinModel", src))]
    ELSE IF folder = None
    THEN [b1 EXCEPT !.unmapped = Append(@, src),
                    !.log = Append(@, Entry("ERROR", "NoMapeado", src))]
    ELSE
      LET dest == <<sanitize_folder_name(folder)>>
          b2   == [b1 EXCEPT !.scanned = @ \cup {folder}]
          b3   == [b2 EXCEPT !.dirs = @ \cup {dest},
                             !.checked = {[dest |-> dest, src |-> src]}]
          d    == is_duplicate(fs, dest, src)
      IN
      IF dest \notin dirs /\ ~mkOk
      THEN \* os.makedirs raises: nothing catches it
           [b2 EXCEPT !.pc = "aborted", !.fault = TRUE]
      ELSE IF d.hashfail
      THEN [b3 EXCEPT !.unmapped = Append(@, src),
                      !.duplicates = Append(@, src),
                      !.log = Append2(@, Entry("ERROR", "HashError", src),
                                         Entry("WARNING", "Duplicado", src))]
      ELSE IF d.dup
      THEN [b3 EXCEPT !.duplicates = Append(@, src),
                      !.log = Append(@, Entry("WARNING", "Duplicado", src))]
      ELSE IF mvOk
      THEN [b3 EXCEPT !.fs = shutil_move(fs, src, Join(dest, item)),
                      !.moved = Append(@, src),
                      !.log = Append(@, Movido(src, Join(dest, item)))]
      ELSE [b3 EXCEPT !.duplicates = Append(@, src),
                      !.log = Append(@, Entry("ERROR", "ErrorMoviendo", src)),
                      !.fault = TRUE]

\* Whether a system call succeeds: it can fail while the model's budget of
\* failures lasts.
Outcomes == IF faults < MaxFaults THEN BOOLEAN ELSE {TRUE}

\* Assign the outcome of an iteration.
Apply(r) ==
    /\ fs' = r.fs
    /\ dirs' = r.dirs
    /\ moved' = r.moved
    /\ unmapped' = r.unmapped
    /\ duplicates' = r.duplicates
    /\ scanned_cameras' = r.scanned
    /\ processed_count' = r.processed
    /\ folders_report' = r.report
    /\ log' = r.log
    /\ pc' = r.pc
    /\ faults' = faults + (IF r.fault THEN 1 ELSE 0)
    /\ idx' = idx + 1
    /\ IF r.checked = {}
       THEN hash_calls' = hash_calls
       ELSE \E c \in r.checked : \E reads \in is_duplicate_reads(fs, c.dest, c.src) :
                hash_calls' = Tally(hash_calls, reads)

\* os.listdir(d) in the order the operating system gives: any order.  Only
\* the plain files are listed here; a directory entry is skipped by the
\* isfile test of every loop and changes nothing.
os_listdir(d) == Perms({Base(p) : p \in FilesIn(fs, d)})

classify_images_start ==
    /\ script = "model_sort"
    /\ pc = "start"
    /\ IF Root \notin dirs
       THEN /\ pc' = "done"
            /\ log' = Append(log, Entry("CRITICAL", "NoExiste", Root))
            /\ UNCHANGED <<listing, processed_count>>
       ELSE /\ \E order \in os_listdir(Root) : listing' = order
            /\ processed_count' = 0
            /\ pc' = "loop"
            /\ UNCHANGED log
    /\ idx' = 1
    /\ UNCHANGED <<hash_calls, other_vars, dup_search_vars, script, fs, dirs, run, todo, cur, created, moved, unmapped,
                   duplicates, scanned_cameras, folders_report, fs0, fsRun,
                   prev, faults>>

classify_images_item ==
    /\ script = "model_sort"
    /\ pc = "loop"
    /\ idx <= Len(listing)
    /\ \E mkOk, mvOk \in Outcomes : Apply(classify_one(listing[idx], mkOk, mvOk))
    /\ UNCHANGED <<other_vars, dup_search_vars, script, run, todo, cur, created,
                   listing, fs0, fsRun, prev>>

-----------------------------------------------------------------------------
(* date_sort v1.2 *)

\* obtener_fecha_captura: the EXIF date, else the file's timestamps.  Without
\* the exiftool binary leer_fecha_con_exiftool returns None and the date is
\* that of os.stat: 'fecha' is then the file's time stamp.
obtener_fecha_captura(f, p) == f[p].fecha

\* Mutant: nothing is found at any path.
exists_never(f, ds, p) == FALSE

\* os.path.exists(p): a file or a directory.
exists(f, ds, p) == isfile(f, p) \/ p \in ds

\* One iteration of the inner loop of organizar_fotos_por_fecha.  mvOk says
\* whether os.path.getsize and shutil.move (one try block) both succeed.
organizar_one(item, mkOk, mvOk) ==
    LET item_path  == Join(Root, item)
        fecha      == ajustar_mes_por_horario_especial(obtener_fecha_captura(fs, item_path))
        destino    == Join(Root, generar_nombre_carpeta(fecha))
        nuevo_path == Join(destino, item)
        b1 == IF exists(fs, dirs, destino) THEN Before
              ELSE [Before EXCEPT !.dirs = @ \cup {destino},
                                  !.log = Append(@, Entry("INFO", "Creada", destino))]
        rpt == IF destino \in DOMAIN folders_report
               THEN folders_report[destino]
               ELSE [created |-> TRUE, files |-> 0]
    IN
    IF ~isfile(fs, item_path) THEN Before
    ELSE IF ExtLower(item) \notin PHOTO_EXTENSIONS_date THEN Before
    ELSE IF ~exists(fs, dirs, destino) /\ ~mkOk
    THEN [Before EXCEPT !.log = Append(@, Entry("ERROR", "ErrorCreando", item_path)),
                        !.fault = TRUE]
    ELSE IF exists(fs, b1.dirs, nuevo_path)
    THEN [b1 EXCEPT !.duplicates = Append(@, item_path),
                    !.log = Append(@, Entry("WARNING", "Duplicado", item_path))]
    ELSE IF mvOk
    THEN [b1 EXCEPT !.fs = shutil_move(fs, item_path, nuevo_path),
                    !.report = Put(folders_report, destino,
                                   [rpt EXCEPT !.files = @ + 1]),
                    !.log = Append(@, Movido(item_path, nuevo_path))]
    ELSE [b1 EXCEPT !.log = Append(@, Entry("ERROR", "ErrorMoviendo", item_path)),
                    !.fault = TRUE]

organizar_fotos_por_fecha_start ==
    /\ script = "date_sort"
    /\ pc = "start"
    /\ \E order \in os_listdir(Root) : listing' = order
    /\ idx' = 1
    /\ pc' = "loop"
    /\ UNCHANGED <<hash_calls, other_vars, dup_search_vars, script, fs, dirs, run, todo, cur, created, moved, unmapped,
                   duplicates, scanned_cameras, processed_count, folders_report,
                   log, fs0, fsRun, prev, faults>>

organizar_fotos_por_fecha_item ==
    /\ script = "date_sort"
    /\ pc = "loop"
    /\ idx <= Len(listing)
    /\ \E mkOk, mvOk \in Outcomes : Apply(organizar_one(listing[idx], mkOk, mvOk))
    /\ UNCHANGED <<other_vars, dup_search_vars, script, run, todo, cur, created,
                   listing, fs0, fsRun, prev>>

\* The loop of model_sort or date_sort is exhausted: the summaries are written.
Finish ==
    /\ script \in {"model_sort", "date_sort"}
    /\ pc = "loop"
    /\ idx > Len(listing)
    /\ pc' = "done"
    /\ UNCHANGED <<hash_calls, other_vars, dup_search_vars, script, fs, dirs, run, todo, cur, created, listing, idx,
                   moved, unmapped, duplicates, scanned_cameras,
                   processed_count, folders_report, log, fs0, fsRun, prev,
                   faults>>

-----------------------------------------------------------------------------
(* raw_sort v1.3 and v1 *)

\* Mutant: a source that hashes is never found in the RAW folder.
raw_is_duplicate_never(f, dest_folder, src_path) ==
    [dup |-> sha256_of_file(f, src_path) = None,
     hashfail |-> sha256_of_file(f, src_path) = None]

\* is_duplicate of raw_sort v1.3
raw_is_duplicate(f, dest_folder, src_path) ==
    LET src_hash == sha256_of_file(f, src_path)
    IN IF src_hash = None
       THEN [dup |-> TRUE, hashfail |-> TRUE]
       ELSE [dup |-> \E existing \in walk(f, dest_folder) :
                        sha256_of_file(f, existing) = src_hash,
             hashfail |-> FALSE]

RawExtensions == IF script = "raw_sort_v1" THEN RAW_EXTENSIONS_v1 ELSE RAW_EXTENSIONS

\* raw_files of procesar_directorio(d)
raw_files(d) == {Base(p) : p \in {q \in FilesIn(fs, d) : ExtLower(Base(q)) \in RawExtensions}}

\* The sub-thematic folders of the thematic folder, 'RAW' left out.
subthemes == {d \in dirs : Len(d) = 1 /\ Lower(d[1]) # "raw"}

\* The directories organizar_raw_en_subcarpeta visits after directory d.
Rest(d, order) == IF d = Root THEN order ELSE Tail(todo)

\* folders_report after a RAW file was moved into raw_dir.
raw_report(raw_dir) ==
    LET rpt0 == IF raw_dir \in DOMAIN folders_report
                THEN folders_report[raw_dir]
                ELSE [created |-> created, files |-> 0]
        rpt1 == IF created THEN [rpt0 EXCEPT !.created = TRUE] ELSE rpt0
    IN Put(folders_report, raw_dir, [rpt1 EXCEPT !.files = @ + 1])

\* One iteration of the loop of procesar_directorio (v1.3) over 'rf'.  szOk
\* and mvOk say whether os.path.getsize and shutil.move succeed.
procesar_one(rf, szOk, mvOk) ==
    LET src     == Join(cur, rf)
        raw_dir == Join(cur, "RAW")
        dst     == Join(raw_dir, rf)
        d       == raw_is_duplicate(fs, raw_dir, src)
        b1      == [Before EXCEPT !.checked = {[dest |-> raw_dir, src |-> src]}]
    IN
    IF ~szOk
    THEN \* os.path.getsize raises: main() logs 'Error inesperado'
         [Before EXCEPT !.pc = "aborted", !.fault = TRUE,
                        !.log = Append(@, Entry("ERROR", "Inesperado", src))]
    ELSE IF d.hashfail
    THEN [b1 EXCEPT !.duplicates = Append(@, src),
                    !.log = Append2(@, Entry("ERROR", "HashError", src),
                                       Entry("WARNING", "Duplicado", src))]
    ELSE IF d.dup
    THEN [b1 EXCEPT !.log = Append(@, Entry("WARNING", "Duplicado", src))]
    ELSE IF mvOk
    THEN [b1 EXCEPT !.fs = shutil_move(fs, src, dst),
                    !.report = raw_report(raw_dir),
                    !.log = Append(@, Movido(src, dst))]
    ELSE [b1 EXCEPT !.log = Append(@, Entry("ERROR", "ErrorMoviendo", src)),
                    !.fault = TRUE]

\* The same iteration in v1: no duplicate check before the move.
procesar_one_v1(rf, szOk, mvOk) ==
    LET orig            == Join(cur, rf)
        raw_folder_path == Join(cur, "RAW")
        dest            == Join(raw_folder_path, rf)
    IN
    IF ~szOk
    THEN [Before EXCEPT !.pc = "aborted", !.fault = TRUE,
                        !.log = Append(@, Entry("ERROR", "Inesperado", orig))]
    ELSE IF mvOk
    THEN [Before EXCEPT !.fs = shutil_move(fs, orig, dest),
                        !.report = raw_report(raw_folder_path),
                        !.log = Append(@, Movido(orig, dest))]
    ELSE [Before EXCEPT !.log = Append(@, Entry("ERROR", "ErrorMoviendo", orig)),
                        !.fault = TRUE]

organizar_raw_en_subcarpeta_start ==
    /\ IsRaw(script)
    /\ pc = "start"
    /\ todo' = <<Root>>
    /\ pc' = "dir"
    /\ UNCHANGED <<hash_calls, other_vars, dup_search_vars, script, fs, dirs, run, cur, created, listing, idx, moved,
                   unmapped, duplicates, scanned_cameras, processed_count,
                   folders_report, log, fs0, fsRun, prev, faults>>

\* procesar_directorio(Head(todo)) up to its loop: list the RAW files and
\* make the RAW folder.  With nothing to do it returns at once.
procesar_directorio_enter ==
    /\ IsRaw(script)
    /\ pc = "dir"
    /\ todo # <<>>
    /\ LET d       == Head(todo)
           raw_dir == Join(d, "RAW")
       IN \E mkOk \in Outcomes, order \in Perms(raw_files(d)), subs \in Perms(subthemes) :
            LET rest == Rest(d, subs)
                skip == raw_files(d) = {} \/ (raw_dir \notin dirs /\ ~mkOk)
            IN
            /\ cur' = d
            /\ listing' = IF skip THEN <<>> ELSE order
            /\ idx' = 1
            /\ created' = (~skip /\ raw_dir \notin dirs)
            /\ dirs' = IF skip THEN dirs ELSE dirs \cup {raw_dir}
            /\ log' = IF raw_files(d) = {} THEN Append(log, Entry("INFO", "NoRaw", d))
                      ELSE IF skip THEN Append(log, Entry("ERROR", "ErrorCreando", d))
                      ELSE IF raw_dir \notin dirs THEN Append(log, Entry("INFO", "Creada", d))
                      ELSE log
            /\ faults' = faults + (IF raw_files(d) # {} /\ skip THEN 1 ELSE 0)
            /\ todo' = IF skip THEN rest ELSE todo
            /\ pc' = IF ~skip THEN "loop" ELSE IF rest = <<>> THEN "done" ELSE "dir"
    /\ UNCHANGED <<hash_calls, other_vars, dup_search_vars, script, fs, run, moved, unmapped, duplicates, scanned_cameras,
                   processed_count, folders_report, fs0, fsRun, prev>>

procesar_directorio_item ==
    /\ script = "raw_sort_v1.3"
    /\ pc = "loop"
    /\ idx <= Len(listing)
    /\ \E szOk, mvOk \in Outcomes : Apply(procesar_one(listing[idx], szOk, mvOk))
    /\ UNCHANGED <<other_vars, dup_search_vars, script, run, todo, cur, created,
                   listing, fs0, fsRun, prev>>

procesar_directorio_v1_item ==
    /\ script = "raw_sort_v1"
    /\ pc = "loop"
    /\ idx <= Len(listing)
    /\ \E szOk, mvOk \in Outcomes : Apply(procesar_one_v1(listing[idx], szOk, mvOk))
    /\ UNCHANGED <<other_vars, dup_search_vars, script, run, todo, cur, created,
                   listing, fs0, fsRun, prev>>

\* procesar_directorio returns; organizar_raw_en_subcarpeta goes on with the
\* sub-thematic folders, then the summaries are written.
procesar_directorio_return ==
    /\ IsRaw(script)
    /\ pc = "loop"
    /\ idx > Len(listing)
    /\ \E subs \in Perms(subthemes) :
         /\ todo' = Rest(cur, subs)
         /\ pc' = IF Rest(cur, subs) = <<>> THEN "done" ELSE "dir"
    /\ UNCHANGED <<hash_calls, other_vars, dup_search_vars, script, fs, dirs, run, cur, created, listing, idx, moved,
                   unmapped, duplicates, scanned_cameras, processed_count,
                   folders_report, log, fs0, fsRun, prev, faults>>

-----------------------------------------------------------------------------
(* The user runs the script a second time: a new process, the same tree *)

RunAgain ==
    /\ pc = "done"
    /\ run = 1
    /\ run' = 2
    /\ pc' = "start"
    /\ prev' = [moved |-> moved, unmapped |-> unmapped,
                duplicates |-> duplicates, log |-> log]
    /\ fsRun' = fs
    /\ moved' = <<>>
    /\ unmapped' = <<>>
    /\ duplicates' = <<>>
    /\ scanned_cameras' = {}
    /\ processed_count' = 0
    /\ folders_report' = EmptyMap
    /\ log' = <<>>
    /\ todo' = <<>>
    /\ cur' = Root
    /\ created' = FALSE
    /\ listing' = <<>>
    /\ idx' = 1
    /\ hash_calls' = EmptyMap
    /\ UNCHANGED <<other_vars, dup_search_vars, script, fs, dirs, fs0, faults>>

Next ==
    \/ classify_images_start
    \/ classify_images_item
    \/ organizar_fotos_por_fecha_start
    \/ organizar_fotos_por_fecha_item
    \/ Finish
    \/ organizar_raw_en_subcarpeta_start
    \/ procesar_directorio_enter
    \/ procesar_directorio_item
    \/ procesar_directorio_v1_item
    \/ procesar_directorio_return
    \/ RunAgain

Spec == Init /\ [][Next]_vars

-----------------------------------------------------------------------------
(* dup_search v2.4, and the older duplicate search kept in the file of      *)
(* scan_exif v2.1.  Paths are relative to CAMERAS_DIR: the first component  *)
(* is the camera folder.                                                    *)

DupScripts == {"dup_search", "scan_exif_dup"}

PHOTO_EXTENSIONS_dup == {".arw", ".cr2", ".cr3", ".jpg", ".mov", ".mp4", ".mts"}
IMAGE_EXTENSIONS     == {".arw", ".cr2", ".cr3", ".jpg"}
DupExtensions == IF script = "dup_search" THEN PHOTO_EXTENSIONS_dup ELSE IMAGE_EXTENSIONS

\* File names and camera folders, in the order sorted() gives.
SortedDupNames == <<"IMG.JPG", "img.jpg", "n.txt">>
SortedCameras  == <<"CamA", "CamB", "PRIVATE">>

\* The paths that can hold a file before the search.
DupInitialPaths ==
    {<<"CamA", SortedDupNames[i]>> : i \in 1..Len(SortedDupNames)}
    \cup {<<"CamA", "2024", "IMG.JPG">>, <<"CamA", "2024", "07", "IMG.JPG">>,
          <<"CamA", "Gopro9", "IMG.JPG">>, <<"CamA", "PRIVATE", "IMG.JPG">>,
          <<"CamB", "IMG.JPG">>, <<"PRIVATE", "IMG.JPG">>}

DupFileRecs == [content : Contents, readable : BOOLEAN, model : {NoModel}, fecha : {NoDate}]

\* "Gopro" in d
HasGopro(d) == d = "Gopro9"

\* Mutant: no directory is left out.
omitted_none(d) == FALSE

\* The directory names a search does not enter.
omitted(d) == IF script = "dup_search" THEN d = "PRIVATE" \/ HasGopro(d) ELSE d = "PRIVATE"

InitDup ==
    /\ script \in DupScripts
    /\ \E placed \in SUBSET DupInitialPaths, root \in BOOLEAN :
         /\ Cardinality(placed) <= MaxFiles
         /\ root \/ placed = {}
         /\ \E g \in [placed -> DupFileRecs] :
              /\ Cardinality({p \in placed : ~g[p].readable}) <= MaxUnreadable
              /\ fs = [p \in DupInitialPaths |-> IF p \in placed THEN g[p] ELSE NoFile]
         /\ dirs = IF root THEN {Root} \cup UNION {Ancestors(p) : p \in placed} ELSE {}
    /\ run = 1
    /\ pc = "start"
    /\ todo = <<>>
    /\ cur = Root
    /\ created = FALSE
    /\ listing = <<>>
    /\ idx = 1
    /\ moved = <<>>
    /\ unmapped = <<>>
    /\ duplicates = <<>>
    /\ scanned_cameras = {}
    /\ processed_count = 0
    /\ folders_report = EmptyMap
    /\ log = <<>>
    /\ fs0 = fs
    /\ fsRun = fs
    /\ prev = NoRecord
    /\ faults = 0
    /\ files_by_folder = EmptyMap
    /\ camera_to_names = EmptyMap
    /\ duplicates_report = EmptyMap
    /\ hashed = {}
    /\ hash_calls = EmptyMap
    /\ InitOther

\* seleccionar_camaras of dup_search: the camera folders, sorted, PRIVATE and
\* the GoPro folders left out; sys.exit(1) without the root directory.
seleccionar_camaras ==
    /\ script = "dup_search"
    /\ pc = "start"
    /\ IF Root \notin dirs
       THEN /\ pc' = "exited"
            /\ log' = Append(log, Entry("CRITICAL", "NoExiste", Root))
            /\ todo' = todo
       ELSE /\ pc' = "list"
            /\ todo' = SelectSeq(SortedCameras, LAMBDA d : <<d>> \in dirs /\ ~omitted(d))
            /\ log' = log
    /\ UNCHANGED <<hash_calls, other_vars, script, fs, dirs, run, cur, created, listing, idx, moved,
                   unmapped, duplicates, scanned_cameras, processed_count,
                   folders_report, fs0, fsRun, prev, faults, dup_search_vars>>

\* Mutant: only the top directory is listed (os.listdir in place of os.walk).
walk_dirs_flat(top) == {d \in dirs : d = top}

\* The directories os.walk(top) visits once the omitted names are pruned.
walk_dirs(top) ==
    {d \in dirs : /\ IsPrefix(top, d)
                  /\ \A i \in (Len(top) + 1)..Len(d) : ~omitted(d[i])}

\* sorted(valid): the allow-listed files of directory d, by name.
valid(d) ==
    SelectSeq(SortedDupNames,
              LAMBDA n : isfile(fs, Join(d, n)) /\ ExtLower(n) \in DupExtensions)

\* files_by_folder once the directories ds have been walked.
listed(ds) == [d \in {e \in ds : valid(e) # <<>>} |-> valid(d)]

\* The orders in which os.walk can come to the folders S: top-down, a folder
\* before the folders below it and a subtree in one piece, the folders of one
\* level in any order.
walk_orders(S) ==
    {s \in Perms(S) :
        /\ \A i, j \in 1..Cardinality(S) : IsPrefix(s[j], s[i]) => j <= i
        /\ \A d \in dirs : \A i, j, k \in 1..Cardinality(S) :
               (i < j /\ j < k /\ IsPrefix(d, s[i]) /\ IsPrefix(d, s[k]))
                   => IsPrefix(d, s[j])}

\* The place of camera folder c in sorted(os.listdir(CAMERAS_DIR)).
camera_rank(c) == CHOOSE i \in 1..Len(SortedCameras) : SortedCameras[i] = c

\* listar_contenidos(cameras).  'listing' keeps the order in which the
\* folders were put in the dict: camera after camera in sorted order, and
\* within a camera as os.walk came to them.
listar_contenidos ==
    /\ script = "dup_search"
    /\ pc = "list"
    /\ files_by_folder' = listed(UNION {walk_dirs(<<todo[i]>>) : i \in 1..Len(todo)})
    /\ \E order \in walk_orders(DOMAIN files_by_folder') :
         /\ \A i, j \in 1..Len(order) :
                i < j => camera_rank(order[i][1]) <= camera_rank(order[j][1])
         /\ listing' = order
    /\ scanned_cameras' = {todo[i] : i \in 1..Len(todo)}
    /\ pc' = "detect"
    /\ UNCHANGED <<hash_calls, other_vars, script, fs, dirs, run, todo, cur, created, idx, moved,
                   unmapped, duplicates, processed_count, folders_report, log,
                   fs0, fsRun, prev, faults, camera_to_names,
                   duplicates_report, hashed>>

\* Phase 1 of the search kept in scan_exif: the root check and one os.walk
\* of CAMERAS_DIR that prunes PRIVATE.
scan_exif_fase1 ==
    /\ script = "scan_exif_dup"
    /\ pc = "start"
    /\ IF Root \notin dirs
       THEN /\ pc' = "exited"
            /\ log' = Append(log, Entry("CRITICAL", "NoExiste", Root))
            /\ UNCHANGED <<files_by_folder, listing>>
       ELSE /\ files_by_folder' = listed(walk_dirs(Root) \ {Root})
            /\ \E order \in walk_orders(DOMAIN files_by_folder') : listing' = order
            /\ pc' = "detect"
            /\ log' = log
    /\ UNCHANGED <<hash_calls, other_vars, script, fs, dirs, run, todo, cur, created, idx, moved,
                   unmapped, duplicates, scanned_cameras, processed_count,
                   folders_report, fs0, fsRun, prev, faults, camera_to_names,
                   duplicates_report, hashed>>

\* The paths of the folders of 'folders', in the order of the dict.
RECURSIVE listed_paths(_)
listed_paths(folders) ==
    IF Len(folders) = 0 THEN <<>>
    ELSE LET folder == folders[1]
             fnames == files_by_folder[folder]
         IN [i \in 1..Len(fnames) |-> Join(folder, fnames[i])]
            \o listed_paths([i \in 1..(Len(folders) - 1) |-> folders[i + 1]])

\* The name a file is grouped under: as it is in dup_search, lower-cased in
\* the search kept in scan_exif.
grouping_key(name) == IF script = "scan_exif_dup" THEN Lower(name) ELSE name

\* The bucket (camera, name) of a path.
bucket_of(p) == <<p[1], grouping_key(Base(p))>>

\* Mutant: every bucket is hashed.
must_compare_always(paths) == TRUE

\* 'if len(paths) < 2: continue'
must_compare(paths) == Len(paths) >= 2

\* hash_to_paths[h] for the paths of one bucket; a path without a hash is in
\* none.
hash_to_paths(paths, h) == SelectSeq(paths, LAMBDA p : sha256_of_file(fs, p) = h)

\* Mutant: a digest found once is reported too.
is_group_any(ps) == Len(ps) >= 1

\* 'if len(ps) > 1'
is_group(ps) == Len(ps) > 1

\* detectar_duplicados: group the listed paths by camera and name, hash the
\* buckets of two or more paths, and report the digests found more than once.
detectar_duplicados ==
    /\ script \in DupScripts
    /\ pc = "detect"
    /\ LET paths    == listed_paths(listing)
           buckets  == {bucket_of(paths[i]) : i \in 1..Len(paths)}
           c2n      == [b \in buckets |-> SelectSeq(paths, LAMBDA p : bucket_of(p) = b)]
           compared == {b \in buckets : must_compare(c2n[b])}
           groups   == {g \in compared \X Contents : is_group(hash_to_paths(c2n[g[1]], g[2]))}
       IN /\ camera_to_names' = c2n
          /\ hashed' = {p \in FilesOf(fs) : \E b \in compared : \E i \in 1..Len(c2n[b]) : c2n[b][i] = p}
          /\ duplicates_report' = [g \in groups |-> hash_to_paths(c2n[g[1]], g[2])]
          /\ hash_calls' = [p \in hashed' |->
                 Cardinality({x \in compared \X (1..Len(paths)) :
                                 x[2] <= Len(c2n[x[1]]) /\ c2n[x[1]][x[2]] = p})]
    /\ pc' = "done"
    /\ UNCHANGED <<other_vars, script, fs, dirs, run, todo, cur, created, listing, idx, moved,
                   unmapped, duplicates, scanned_cameras, processed_count,
                   folders_report, log, fs0, fsRun, prev, faults, files_by_folder>>

\* duplicates_report[cam], a dict name -> (hash -> paths), as the names it
\* holds and the (name, hash) pairs below them.
names_of(cam) == {g[1][2] : g \in {x \in DOMAIN duplicates_report : x[1][1] = cam}}
hashes_of(cam, name) == {g[2] : g \in {x \in DOMAIN duplicates_report : x[1] = <<cam, name>>}}

\* sum(len(v) for v in d.values()) for the dict d of camera cam, whose
\* values are the dicts hash -> paths of its names.
RECURSIVE sum_len_values(_, _)
sum_len_values(cam, names) ==
    IF names = {} THEN 0
    ELSE LET name == CHOOSE n \in names : TRUE
         IN Cardinality(hashes_of(cam, name)) + sum_len_values(cam, names \ {name})

\* sum(f(cam) for cam in cams)
RECURSIVE sum_over(_, _)
sum_over(f, cams) ==
    IF cams = {} THEN 0
    ELSE LET cam == CHOOSE c \in cams : TRUE
         IN f[cam] + sum_over(f, cams \ {cam})

\* generar_reporte_pdf: the general figures and the row of each camera
\* scanned; nothing is written when duplicates_report is empty.
generar_reporte_pdf ==
    /\ script = "dup_search"
    /\ pc = "done"
    /\ pc' = "reported"
    /\ LET cams   == {g[1][1] : g \in DOMAIN duplicates_report}
           groups == [cam \in cams \cup scanned_cameras |-> Cardinality(names_of(cam))]
           dups   == [cam \in cams \cup scanned_cameras |->
                         sum_len_values(cam, names_of(cam))]
       IN IF DOMAIN duplicates_report = {}
          THEN pdf_metrics' = pdf_metrics
          ELSE pdf_metrics' =
                 [written |-> TRUE,
                  total_groups |-> sum_over(groups, cams),
                  total_dups |-> sum_over(dups, cams),
                  groups |-> [cam \in scanned_cameras |-> groups[cam]],
                  dup_files |-> [cam \in scanned_cameras |-> dups[cam]]]
    /\ UNCHANGED <<hash_calls, dup_search_vars, script, fs, dirs, run, todo, cur,
                   created, listing, idx, moved, unmapped, duplicates,
                   scanned_cameras, processed_count, folders_report, log, fs0,
                   fsRun, prev, faults, data, digests, fecha_captura,
                   carpeta_destino, exiftool, models, extensions,
                   video_no_model, seen_exts>>

NextDup ==
    \/ seleccionar_camaras
    \/ listar_contenidos
    \/ scan_exif_fase1
    \/ detectar_duplicados
    \/ generar_reporte_pdf

SpecDup == InitDup /\ [][NextDup]_vars

-----------------------------------------------------------------------------
(* Every script, each on a tree that may hold a file outside its allow-list *)

\* A file name whose extension is in no script's allow-list.
OtherName == "n.txt"

\* Files in the tree besides the file OtherName.
MaxBeside == 1

\* What the file OtherName can be: it carries no metadata.
OtherRecs(s) ==
    [content  : Contents,
     readable : IF s \in {"model_sort", "raw_sort_v1.3"} THEN BOOLEAN ELSE {TRUE},
     model    : {NoModel},
     fecha    : {NoDate}]

\* Init of the relocation scripts with a file OtherName in the directory the
\* script reads.
InitAllow ==
    /\ script \in Scripts
    /\ \E placed \in SUBSET (InitialPaths(script) \cup {<<OtherName>>}) :
         /\ <<OtherName>> \in placed
         /\ Cardinality(placed \ {<<OtherName>>}) <= MaxBeside
         /\ \E g \in [placed -> AllRecs(script) \cup OtherRecs(script)] :
              /\ \A q \in placed :
                     g[q] \in IF q = <<OtherName>> THEN OtherRecs(script)
                                                   ELSE FileRecs(script, q)
              /\ Cardinality({q \in placed : ~g[q].readable}) <= MaxUnreadable
              /\ fs = [q \in PathsOf(script) \cup {<<OtherName>>} |->
                          IF q \in placed THEN g[q] ELSE NoFile]
         /\ dirs = {Root} \cup UNION {Ancestors(q) : q \in placed}
    /\ run = 1
    /\ pc = "start"
    /\ todo = <<>>
    /\ cur = Root
    /\ created = FALSE
    /\ listing = <<>>
    /\ idx = 1
    /\ moved = <<>>
    /\ unmapped = <<>>
    /\ duplicates = <<>>
    /\ scanned_cameras = {}
    /\ processed_count = 0
    /\ folders_report = EmptyMap
    /\ log = <<>>
    /\ fs0 = fs
    /\ fsRun = fs
    /\ prev = NoRecord
    /\ faults = 0
    /\ files_by_folder = EmptyMap
    /\ camera_to_names = EmptyMap
    /\ duplicates_report = EmptyMap
    /\ hashed = {}
    /\ hash_calls = EmptyMap
    /\ InitOther

InitAll == InitAllow \/ InitDup

NextAll == Next \/ NextDup

SpecAll == InitAll /\ [][NextAll]_vars

-----------------------------------------------------------------------------
(* Steps checked one by one *)

\* Script s has been started on an empty tree and has done nothing yet.
Idle(s) ==
    /\ script = s
    /\ fs = EmptyMap
    /\ dirs = {Root}
    /\ run = 1
    /\ pc = "start"
    /\ todo = <<>>
    /\ cur = Root
    /\ created = FALSE
    /\ listing = <<>>
    /\ idx = 1
    /\ moved = <<>>
    /\ unmapped = <<>>
    /\ duplicates = <<>>
    /\ scanned_cameras = {}
    /\ processed_count = 0
    /\ folders_report = EmptyMap
    /\ log = <<>>
    /\ fs0 = fs
    /\ fsRun = fs
    /\ prev = NoRecord
    /\ faults = 0
    /\ files_by_folder = EmptyMap
    /\ camera_to_names = EmptyMap
    /\ duplicates_report = EmptyMap
    /\ hashed = {}
    /\ hash_calls = EmptyMap

\* The capture dates the folder name is computed for: the first day of a
\* month before, at and after 08:00, other days, every month of two years.
CaptureDates ==
    [year : {2023, 2024}, month : 1..12, day : {1, 2, 15}, hour : {0, 7, 8, 23}]

InitFecha ==
    /\ Idle("date_sort")
    /\ fecha_captura \in CaptureDates
    /\ carpeta_destino = ""
    /\ exiftool = TRUE
    /\ models = {}
    /\ extensions = {}
    /\ video_no_model = <<>>
    /\ seen_exts = {}
    /\ data = EmptyMap
    /\ digests = EmptyMap
    /\ pdf_metrics = NoMetrics

\* The three lines of organizar_fotos_por_fecha that name the folder of a
\* capture date.
nombrar_carpeta ==
    /\ script = "date_sort"
    /\ pc = "start"
    /\ carpeta_destino' =
           generar_nombre_carpeta(ajustar_mes_por_horario_especial(fecha_captura))
    /\ pc' = "done"
    /\ UNCHANGED <<hash_calls, dup_search_vars, script, fs, dirs, run, todo, cur, created,
                   listing, idx, moved, unmapped, duplicates, scanned_cameras,
                   processed_count, folders_report, log, fs0, fsRun, prev,
                   faults, fecha_captura, exiftool, models, extensions,
                   video_no_model, seen_exts, data, digests, pdf_metrics>>

NextFecha == nombrar_carpeta

SpecFecha == InitFecha /\ [][NextFecha]_vars

-----------------------------------------------------------------------------
(* sha256_of_file, read by read.  A hashlib object is modelled by the bytes *)
(* it has been fed: with SHA-256 collision free, two objects give the same  *)
(* hexdigest exactly when they were fed the same bytes.                     *)

Bytes == {0, 1}

\* The byte strings of length n, and of length up to MaxBytes.
BytesOfLen(n) == [1..n -> Bytes]
ByteStrings == UNION {BytesOfLen(n) : n \in 0..MaxBytes}

\* The paths of the two files that are hashed.
HashedPaths == {<<"CamA", "IMG.JPG">>, <<"CamB", "copia.jpg">>}

\* f.read(chunk_size) at offset pos: the next chunk_size bytes, fewer at the
\* end of the file, b"" past it.
f_read(bytes, pos, chunk_size) ==
    SubSeq(bytes, pos + 1, IF pos + chunk_size < Len(bytes) THEN pos + chunk_size ELSE Len(bytes))

\* h.update(chunk)
h_update(h, chunk) == h \o chunk

\* h.hexdigest(): stands for the SHA-256 of the bytes fed.
h_hexdigest(h) == h

\* Mutant: the loop ends at the first read that is shorter than a chunk.
RECURSIVE read_full_chunks(_, _, _)
read_full_chunks(bytes, pos, h) ==
    LET chunk == f_read(bytes, pos, ChunkSize)
    IN IF Len(chunk) < ChunkSize THEN h
       ELSE read_full_chunks(bytes, pos + Len(chunk), h_update(h, chunk))

\* for chunk in iter(lambda: f.read(chunk_size), b""): h.update(chunk)
RECURSIVE read_chunks(_, _, _)
read_chunks(bytes, pos, h) ==
    LET chunk == f_read(bytes, pos, ChunkSize)
    IN IF chunk = <<>> THEN h
       ELSE read_chunks(bytes, pos + Len(chunk), h_update(h, chunk))

\* sha256_of_file(path) of a file that can be read.
sha256_of_bytes(path) == h_hexdigest(read_chunks(data[path], 0, <<>>))

InitSha ==
    /\ Idle("sha256_of_file")
    /\ fecha_captura = NoDate
    /\ carpeta_destino = ""
    /\ exiftool = TRUE
    /\ models = {}
    /\ extensions = {}
    /\ video_no_model = <<>>
    /\ seen_exts = {}
    /\ data \in [HashedPaths -> ByteStrings]
    /\ digests = EmptyMap
    /\ pdf_metrics = NoMetrics

\* sha256_of_file is called on one of the files.
hash_file ==
    /\ script = "sha256_of_file"
    /\ pc = "start"
    /\ \E path \in HashedPaths \ DOMAIN digests :
         /\ digests' = Put(digests, path, sha256_of_bytes(path))
         /\ hash_calls' = Tally(hash_calls, {path})
    /\ UNCHANGED <<dup_search_vars, script, fs, dirs, run, pc, todo, cur,
                   created, listing, idx, moved, unmapped, duplicates,
                   scanned_cameras, processed_count, folders_report, log, fs0,
                   fsRun, prev, faults, fecha_captura, carpeta_destino,
                   exiftool, models, extensions, video_no_model, seen_exts,
                   data, pdf_metrics>>

NextSha == hash_file

SpecSha == InitSha /\ [][NextSha]_vars

-----------------------------------------------------------------------------
(* scan_exif v2.1: the inventory of EXIF models and of extensions.  Paths   *)
(* are relative to CAMERAS_DIR.                                             *)

SKIP_EXTENSIONS == {".ffs_db", ".ini"}

\* The paths that can hold a file before the scan.
ScanInitialPaths ==
    {<<"IMG.JPG">>, <<"v.mp4">>, <<"d.ini">>,
     <<"CamA", "IMG.JPG">>, <<"CamA", "img.jpg">>, <<"CamA", "v.mp4">>,
     <<"CamA", "d.ini">>, <<"CamA", "2024", "IMG.JPG">>, <<"CamB", "IMG.JPG">>}

\* What a file at path p can be: a settings file carries no Model tag.
ScanFileRecs(p) ==
    [content : {"X"}, readable : {TRUE},
     model : IF ExtLower(Base(p)) \in SKIP_EXTENSIONS THEN {NoModel}
             ELSE {NoModel, "ILCE-6000", "WB30F"},
     fecha : {NoDate}]

InitScan ==
    /\ script = "scan_exif"
    /\ \E placed \in SUBSET ScanInitialPaths, root \in BOOLEAN :
         /\ Cardinality(placed) <= MaxFiles
         /\ root \/ placed = {}
         /\ \E g \in [placed -> UNION {ScanFileRecs(p) : p \in ScanInitialPaths}] :
              /\ \A p \in placed : g[p] \in ScanFileRecs(p)
              /\ fs = [p \in ScanInitialPaths |-> IF p \in placed THEN g[p] ELSE NoFile]
         /\ dirs = IF root THEN {Root} \cup UNION {Ancestors(p) : p \in placed} ELSE {}
    /\ run = 1
    /\ pc = "start"
    /\ todo = <<>>
    /\ cur = Root
    /\ created = FALSE
    /\ listing = <<>>
    /\ idx = 1
    /\ moved = <<>>
    /\ unmapped = <<>>
    /\ duplicates = <<>>
    /\ scanned_cameras = {}
    /\ processed_count = 0
    /\ folders_report = EmptyMap
    /\ log = <<>>
    /\ fs0 = fs
    /\ fsRun = fs
    /\ prev = NoRecord
    /\ faults = 0
    /\ files_by_folder = EmptyMap
    /\ camera_to_names = EmptyMap
    /\ duplicates_report = EmptyMap
    /\ hashed = {}
    /\ hash_calls = EmptyMap
    /\ fecha_captura = NoDate
    /\ carpeta_destino = ""
    /\ exiftool \in BOOLEAN
    /\ models = {}
    /\ extensions = {}
    /\ video_no_model = <<>>
    /\ seen_exts = {}
    /\ data = EmptyMap
    /\ digests = EmptyMap
    /\ pdf_metrics = NoMetrics

\* get_exif_model(path) with exiftool at hand: the tag, or None.
get_exif_model(f, p) == IF f[p].model = NoModel THEN None ELSE f[p].model

\* process_file(path), as the values it leaves in the globals.  Without the
\* exiftool binary get_exif_model logs and calls sys.exit(1).
process_file(path) ==
    LET ext   == ExtLower(Base(path))
        model == get_exif_model(fs, path)
        st    == [processed |-> processed_count + 1,
                  extensions |-> extensions \cup {ext},
                  models |-> models, video_no_model |-> video_no_model,
                  log |-> log, pc |-> pc]
    IN IF ~exiftool
       THEN [st EXCEPT !.log = Append(@, Entry("CRITICAL", "SinExiftool", path)),
                       !.pc = "exited"]
       ELSE IF model = None /\ ext \in {".mp4", ".mts"}
       THEN [st EXCEPT !.video_no_model = Append(@, path),
                       !.log = Append(@, Entry("ERROR", "VideoSinModel", path))]
       ELSE IF model # None
       THEN [st EXCEPT !.models = @ \cup {model},
                       !.log = Append(@, Entry("INFO", "Procesado", path))]
       ELSE [st EXCEPT !.log = Append(@, Entry("INFO", "ProcesadoSinModel", path))]

\* Assign what process_file, or the branch that leaves a file out, left.
ScanApply(st) ==
    /\ processed_count' = st.processed
    /\ extensions' = st.extensions
    /\ models' = st.models
    /\ video_no_model' = st.video_no_model
    /\ log' = st.log
    /\ pc' = st.pc
    /\ idx' = idx + 1

\* The globals as they are, with one more record in the log.
ScanLogged(e) ==
    [processed |-> processed_count, extensions |-> extensions,
     models |-> models, video_no_model |-> video_no_model,
     log |-> Append(log, e), pc |-> pc]

\* The root check and the os.listdir of phase 1.
scan_raiz_start ==
    /\ script = "scan_exif"
    /\ pc = "start"
    /\ IF Root \notin dirs
       THEN /\ pc' = "exited"
            /\ log' = Append(log, Entry("CRITICAL", "NoExiste", Root))
            /\ listing' = listing
       ELSE /\ \E order \in os_listdir(Root) : listing' = order
            /\ pc' = "fase1"
            /\ log' = log
    /\ idx' = 1
    /\ UNCHANGED <<hash_calls, dup_search_vars, script, fs, dirs, run, todo, cur,
                   created, moved, unmapped, duplicates, scanned_cameras,
                   processed_count, folders_report, fs0, fsRun, prev, faults,
                   data, digests, pdf_metrics, fecha_captura, carpeta_destino, exiftool, models,
                   extensions, video_no_model, seen_exts>>

\* One entry of phase 1: a file in the root of CAMERAS_DIR.
scan_raiz_item ==
    /\ script = "scan_exif"
    /\ pc = "fase1"
    /\ idx <= Len(listing)
    /\ LET full == Join(Root, listing[idx])
       IN IF ExtLower(listing[idx]) \in SKIP_EXTENSIONS
          THEN ScanApply(ScanLogged(Entry("INFO", "Omitido", full)))
          ELSE ScanApply(process_file(full))
    /\ UNCHANGED <<hash_calls, dup_search_vars, script, fs, dirs, run, todo, cur,
                   created, listing, moved, unmapped, duplicates,
                   scanned_cameras, folders_report, fs0, fsRun, prev, faults,
                   data, digests, pdf_metrics, fecha_captura, carpeta_destino, exiftool, seen_exts>>

\* The os.listdir of phase 2: the folders in the root, in any order.
scan_modelos_start ==
    /\ script = "scan_exif"
    /\ pc = "fase1"
    /\ idx > Len(listing)
    /\ \E order \in Perms({d \in dirs : Len(d) = 1}) : todo' = order
    /\ listing' = <<>>
    /\ idx' = 1
    /\ pc' = "fase2"
    /\ UNCHANGED <<hash_calls, dup_search_vars, script, fs, dirs, run, cur,
                   created, moved, unmapped, duplicates, scanned_cameras,
                   processed_count, folders_report, log, fs0, fsRun, prev,
                   faults, other_vars>>

\* The place of directory d in the sequence of directories s.
place_in(s, d) == CHOOSE i \in 1..Len(s) : s[i] = d

\* The orders in which os.walk(top) can give the files below top: directory
\* after directory as walk_orders has them, the files of one directory in any
\* order.
walk_file_orders(top) ==
    LET files == walk(fs, top)
        n     == Cardinality(files)
    IN {s \in Perms(files) :
           \E ds \in walk_orders({Parent(p) : p \in files}) :
               \A i, j \in 1..n :
                   i < j => place_in(ds, Parent(s[i])) <= place_in(ds, Parent(s[j]))}

\* Phase 2 comes to the next model folder: seen_exts starts empty.
scan_modelo_enter ==
    /\ script = "scan_exif"
    /\ pc = "fase2"
    /\ idx > Len(listing)
    /\ todo # <<>>
    /\ cur' = Head(todo)
    /\ todo' = Tail(todo)
    /\ \E order \in walk_file_orders(Head(todo)) : listing' = order
    /\ idx' = 1
    /\ seen_exts' = {}
    /\ log' = Append(log, Entry("INFO", "Escaneando", Head(todo)))
    /\ UNCHANGED <<hash_calls, dup_search_vars, script, fs, dirs, run, created,
                   moved, unmapped, duplicates, scanned_cameras,
                   processed_count, folders_report, fs0, fsRun, prev, faults,
                   data, digests, pdf_metrics, fecha_captura, carpeta_destino, exiftool, models,
                   extensions, video_no_model, pc>>

\* One file of the os.walk of a model folder: only the first file of an
\* extension is passed to process_file.
scan_modelo_item ==
    /\ script = "scan_exif"
    /\ pc = "fase2"
    /\ idx <= Len(listing)
    /\ LET full == listing[idx]
           ext  == ExtLower(Base(full))
       IN IF ext \in SKIP_EXTENSIONS
          THEN /\ ScanApply(ScanLogged(Entry("INFO", "Omitido", full)))
               /\ seen_exts' = seen_exts
          ELSE IF ext \in seen_exts
          THEN /\ idx' = idx + 1
               /\ UNCHANGED <<processed_count, extensions, models,
                              video_no_model, log, pc, seen_exts>>
          ELSE /\ ScanApply(process_file(full))
               /\ seen_exts' = seen_exts \cup {ext}
    /\ UNCHANGED <<hash_calls, dup_search_vars, script, fs, dirs, run, todo, cur,
                   created, listing, moved, unmapped, duplicates,
                   scanned_cameras, folders_report, fs0, fsRun, prev, faults,
                   data, digests, pdf_metrics, fecha_captura, carpeta_destino, exiftool>>

\* "Escaneo completado"
scan_fin ==
    /\ script = "scan_exif"
    /\ pc = "fase2"
    /\ idx > Len(listing)
    /\ todo = <<>>
    /\ pc' = "done"
    /\ log' = Append(log, Entry("INFO", "Completado", Root))
    /\ UNCHANGED <<hash_calls, dup_search_vars, script, fs, dirs, run, todo, cur,
                   created, listing, idx, moved, unmapped, duplicates,
                   scanned_cameras, processed_count, folders_report, fs0,
                   fsRun, prev, faults, other_vars>>

NextScan ==
    \/ scan_raiz_start
    \/ scan_raiz_item
    \/ scan_modelos_start
    \/ scan_modelo_enter
    \/ scan_modelo_item
    \/ scan_fin

\* The scripts that read EXIF data, run with and without the exiftool binary.
InitExif ==
    \/ InitScan
    \/ /\ InitTree
       /\ script \in {"model_sort", "date_sort"}
       /\ fecha_captura = NoDate
       /\ carpeta_destino = ""
       /\ exiftool = FALSE
       /\ models = {}
       /\ extensions = {}
       /\ video_no_model = <<>>
       /\ seen_exts = {}
       /\ data = EmptyMap
       /\ digests = EmptyMap
       /\ pdf_metrics = NoMetrics

NextExif ==
    \/ classify_images_start
    \/ classify_images_item
    \/ organizar_fotos_por_fecha_start
    \/ organizar_fotos_por_fecha_item
    \/ Finish
    \/ NextScan

SpecExif == InitExif /\ [][NextExif]_vars



-----------------------------------------------------------------------------
(* What a run recorded about a file *)

Logged(l, event, p) == \E i \in 1..Len(l) : l[i].event = event /\ l[i].path = p
InList(lst, p) == \E i \in 1..Len(lst) : lst[i] = p

\* The files a run of the script enumerates in tree f.
Sources(f) == {p \in FilesOf(f) : Parent(p) \in SourceDirs(script)}

\* The files of tree f that lie in or below a destination folder.
InDestination(f) == {p \in FilesOf(f) : \E d \in DestDirs(script) : IsPrefix(d, p)}

\* Outcome MOVED: the run logged the move of p.
WasMoved(p) == Logged(log, "Movido", p)
MovedTo(p) == log[CHOOSE i \in 1..Len(log) : log[i].event = "Movido" /\ log[i].path = p].dest

\* Outcome DUPLICATE_SKIPPED: the run logged p as a duplicate or put it in
\* the list 'duplicates'.
RecordedDuplicate(p) == Logged(log, "Duplicado", p) \/ InList(duplicates, p)

\* Outcome ERROR: the run logged an error about p.
RecordedError(p) == \E i \in 1..Len(log) : log[i].level = "ERROR" /\ log[i].path = p

\* The run has a record about p.
HasOutcome(l, p) == \E i \in 1..Len(l) : l[i].path = p

AllReadable(f) == \A p \in FilesOf(f) : f[p].readable

\* The path the script computes as the destination of source file p of tree
\* f (Root when model_sort has no folder for it).
DestinationOf(f, p) ==
    CASE script = "model_sort" ->
           IF f[p].model \in DOMAIN MODEL_TO_FOLDER
           THEN <<sanitize_folder_name(MODEL_TO_FOLDER[f[p].model]), Base(p)>>
           ELSE Root
      [] script = "date_sort" ->
           <<generar_nombre_carpeta(ajustar_mes_por_horario_especial(f[p].fecha)), Base(p)>>
      [] OTHER -> Parent(p) \o <<"RAW", Base(p)>>

-----------------------------------------------------------------------------
(* Claims *)

\* C1 (no data loss): in model_sort, raw_sort v1.3 and date_sort, at every
\* point of a run, a file the run enumerates and has not moved is still at
\* its source path with the content it had when the run began; a file the
\* run has moved is no longer at its source path and the path it was moved
\* to holds the content the source had.
C1_NoDataLoss ==
    script \in {"model_sort", "raw_sort_v1.3", "date_sort"} =>
        \A p \in Sources(fsRun) :
            IF WasMoved(p)
            THEN /\ ~isfile(fs, p)
                 /\ isfile(fs, MovedTo(p))
                 /\ fs[MovedTo(p)].content = fsRun[p].content
            ELSE /\ isfile(fs, p)
                 /\ fs[p] = fsRun[p]

\* C1 witness: a finished run that moved one file and left another in place.
C1_Witness ==
    /\ script \in {"model_sort", "raw_sort_v1.3", "date_sort"}
    /\ pc = "done"
    /\ \E p, q \in Sources(fsRun) :
         /\ WasMoved(p) /\ isfile(fs, MovedTo(p))
         /\ ~WasMoved(q) /\ HasOutcome(log, q) /\ isfile(fs, q)

\* C2 (name conflict), as claimed: in model_sort and raw_sort v1.3, with
\* every file readable and no failing system call, a source whose destination
\* path is taken by a file of different content, while no file of the
\* destination folder has the source's content, is not moved and not recorded
\* as a duplicate, and both files keep their contents.  The code moves the
\* source onto the other file.
C2_NameConflictKept ==
    (script \in {"model_sort", "raw_sort_v1.3"} /\ faults = 0 /\ AllReadable(fsRun)) =>
        \A p \in Sources(fsRun) :
            LET q == DestinationOf(fsRun, p)
            IN (/\ q # Root
                /\ isfile(fsRun, q)
                /\ \A e \in walk(fsRun, Parent(q)) : fsRun[e].content # fsRun[p].content)
               => /\ ~WasMoved(p)
                  /\ ~RecordedDuplicate(p)
                  /\ fs[p] = fsRun[p]
                  /\ fs[q] = fsRun[q]

\* C3 (no destructive overwrite), as claimed: every file that is in a
\* destination folder when a run begins is still there, unchanged, at every
\* later point of the run.  raw_sort v1, raw_sort v1.3 and model_sort move
\* onto an occupied path.
C3_NoDestructiveOverwrite ==
    \A q \in InDestination(fsRun) : fs[q] = fsRun[q]

NoTwoAlike(f, d) == \A p, q \in walk(f, d) : p # q => f[p].content # f[q].content

\* C5 (at most one copy per fingerprint): in model_sort and raw_sort v1.3,
\* when every file is readable, a destination folder that held no two files
\* of equal content before the first run holds no two such files at any
\* later point, subfolders included.
C5_AtMostOneCopy ==
    (script \in {"model_sort", "raw_sort_v1.3"} /\ AllReadable(fs0)) =>
        \A d \in DestDirs(script) : NoTwoAlike(fs0, d) => NoTwoAlike(fs, d)

\* C5 witness: a finished run that moved a file into a folder which already
\* held files, all of different content, and skipped another as a duplicate.
C5_Witness ==
    /\ script \in {"model_sort", "raw_sort_v1.3"}
    /\ AllReadable(fs0)
    /\ faults = 0
    /\ pc = "done"
    /\ \E d \in DestDirs(script) :
         /\ walk(fs0, d) # {}
         /\ NoTwoAlike(fs0, d)
         /\ \E p, q \in Sources(fsRun) :
              /\ WasMoved(p) /\ IsPrefix(d, MovedTo(p))
              /\ Logged(log, "Duplicado", q) /\ IsPrefix(d, DestinationOf(fsRun, q))

\* The scripts whose second run the claims about re-running speak of.
Rerunnable == {"model_sort", "raw_sort_v1.3", "date_sort"}

\* A second run has finished and no system call failed in either run.
SecondRunDone == run = 2 /\ pc = "done" /\ faults = 0 /\ AllReadable(fs0)

\* C6 (idempotence), as claimed: when a script has been run twice on a tree
\* of readable files and no system call failed, the second run has moved no
\* file.  (The claim adds that the second run skips as duplicates as many
\* files as the first run moved; those files have left the source folder
\* and the second run does not list them.)  In model_sort and raw_sort v1.3
\* the second run moves a file that the first run skipped as a duplicate
\* when the first run later moved another file onto the duplicate's twin.
C6_SecondRunMovesNothing ==
    (script \in Rerunnable /\ SecondRunDone) =>
        \A p \in Sources(fsRun) : ~WasMoved(p)

\* C7 (re-run safety), as claimed: when a second run on a tree of readable
\* files finishes and no system call failed, every path holds what it held
\* when the second run began.
C7_SecondRunChangesNothing ==
    (script \in Rerunnable /\ SecondRunDone) => fs = fsRun

\* The readable sources of tree f whose content is c and whose destination
\* folder is d.
AlikeSources(f, d, c) ==
    {p \in Sources(f) : /\ f[p].readable
                        /\ f[p].content = c
                        /\ DestinationOf(f, p) # Root
                        /\ Parent(DestinationOf(f, p)) = d}

\* The groups the claims about source-side duplicates speak of: two or more
\* readable sources of equal content bound for one destination folder that
\* was empty before the run.
SourceGroups ==
    {G \in {AlikeSources(fs0, d, c) : d \in DestDirs(script), c \in Contents} :
        /\ Cardinality(G) >= 2
        /\ \A p \in G : walk(fs0, Parent(DestinationOf(fs0, p))) = {}}

\* C8 (source-side duplicates): in model_sort and raw_sort v1.3, when a first
\* run in which no system call failed has finished, of two or more readable
\* sources of equal content bound for the same destination folder, empty
\* before the run, exactly one was moved and every other one was logged as
\* a duplicate and is still at its source path, unchanged.
C8_OneOfGroupMoved ==
    (script \in {"model_sort", "raw_sort_v1.3"} /\ run = 1 /\ pc = "done" /\ faults = 0) =>
        \A G \in SourceGroups :
            /\ Cardinality({p \in G : WasMoved(p)}) = 1
            /\ \A p \in G : ~WasMoved(p) =>
                   /\ Logged(log, "Duplicado", p)
                   /\ fs[p] = fs0[p]

\* C8 witness: a finished first run without failures on a tree with such a
\* group, one member moved and another logged as a duplicate.
C8_Witness ==
    /\ script \in {"model_sort", "raw_sort_v1.3"}
    /\ run = 1 /\ pc = "done" /\ faults = 0
    /\ \E G \in SourceGroups : \E p, q \in G :
         /\ WasMoved(p) /\ isfile(fs, MovedTo(p))
         /\ Logged(log, "Duplicado", q) /\ isfile(fs, q)

\* Position of a name in the ascending order of the names.
Rank(n) == CHOOSE i \in 1..Len(SortedNames) : SortedNames[i] = n

\* C9 (canonical determinism), as claimed: of such a group, the member that
\* was moved is the one with the smallest path.  The members of a group lie
\* in one folder, so the smallest path is the smallest name.  The code moves
\* the member that os.listdir happens to give first.
C9_SmallestPathMoved ==
    (script \in {"model_sort", "raw_sort_v1.3"} /\ run = 1 /\ pc = "done" /\ faults = 0) =>
        \A G \in SourceGroups : \A p \in G :
            WasMoved(p) => \A q \in G : Rank(Base(p)) <= Rank(Base(q))

\* C10 (unreadable source), as claimed: in model_sort and raw_sort v1.3, a
\* source whose hash could not be computed has an error on record, is still
\* at its path, unchanged, and is recorded neither as moved nor as a
\* duplicate.  The code puts it in the list 'duplicates' and logs it as a
\* duplicate that was not moved.
C10_UnreadableIsError ==
    script \in {"model_sort", "raw_sort_v1.3"} =>
        \A p \in Sources(fsRun) :
            Logged(log, "HashError", p) =>
                /\ RecordedError(p)
                /\ fs[p] = fsRun[p]
                /\ ~WasMoved(p)
                /\ ~RecordedDuplicate(p)

\* C11 (move failure), as claimed: in model_sort, date_sort and raw_sort
\* v1.3, a source whose move failed has an error on record, is recorded
\* neither as a duplicate nor as moved, and is still at its path, unchanged.
\* model_sort appends it to the list 'duplicates'.
C11_MoveFailureIsError ==
    script \in {"model_sort", "date_sort", "raw_sort_v1.3"} =>
        \A p \in Sources(fsRun) :
            Logged(log, "ErrorMoviendo", p) =>
                /\ RecordedError(p)
                /\ ~RecordedDuplicate(p)
                /\ ~WasMoved(p)
                /\ fs[p] = fsRun[p]

\* C12 (batch completion), as claimed: in model_sort and raw_sort v1.3 no
\* failure about one file ends the run: the loop is never left by an
\* exception, so the run always gets to its reports.  os.makedirs in
\* classify_images and os.path.getsize in procesar_directorio stand outside
\* every try block of the loop.
C12_BatchCompletes ==
    script \in {"model_sort", "raw_sort_v1.3"} => pc # "aborted"

\* The number of the lists moved, unmapped, duplicates that hold path p.
ListsHolding(p) ==
    (IF InList(moved, p) THEN 1 ELSE 0) + (IF InList(unmapped, p) THEN 1 ELSE 0)
        + (IF InList(duplicates, p) THEN 1 ELSE 0)

\* C13 (one outcome per file), as claimed: when a run of model_sort has
\* finished, every allow-listed file it enumerated is in exactly one of the
\* lists moved, unmapped, duplicates, and processed_count is the sum of the
\* lengths of the three lists.  A file whose hash fails is put in unmapped
\* by is_duplicate and in duplicates by classify_images.
C13_OneOutcomePerFile ==
    (script = "model_sort" /\ pc = "done") =>
        /\ \A p \in Sources(fsRun) :
               ExtLower(Base(p)) \in PHOTO_EXTENSIONS_model => ListsHolding(p) = 1
        /\ processed_count = Len(moved) + Len(unmapped) + Len(duplicates)

\* The run logged that the folder source p was bound for could not be made
\* (date_sort logs it about the file, raw_sort about the directory).
CreationFailed(p) ==
    Logged(log, "ErrorCreando", p) \/ Logged(log, "ErrorCreando", Parent(p))

\* C14 (missing destination directory), as claimed: in model_sort, date_sort
\* and raw_sort v1.3 a file is only ever moved into a directory that exists
\* by then; when the directory cannot be made the failure is on record, the
\* file is still at its path, unchanged, and the run goes on.  In model_sort
\* a failing os.makedirs is caught nowhere and ends the run.
C14_MissingDestination ==
    script \in {"model_sort", "date_sort", "raw_sort_v1.3"} =>
        /\ \A p \in Sources(fsRun) :
               /\ WasMoved(p) => Parent(MovedTo(p)) \in dirs
               /\ CreationFailed(p) => (~WasMoved(p) /\ fs[p] = fsRun[p])
        /\ (script = "model_sort" => pc # "aborted")

\* The run ended before it had gone through its files: it found no root
\* directory, or an exception left the loop.
EndedEarly == pc = "aborted" \/ Logged(log, "NoExiste", Root)

\* C15 (single fatal condition), as claimed: a run ends early only when the
\* root directory is missing, and then no file has been moved or altered.
\* A failing os.makedirs (model_sort) or os.path.getsize (raw_sort) also
\* ends the run, after files may have been moved.
C15_SingleFatalCondition ==
    EndedEarly => (Root \notin dirs /\ fs = fsRun)

-----------------------------------------------------------------------------
(* Claims about the duplicate search, under SpecDup *)

\* The paths the listing phase put in files_by_folder.
Enumerated ==
    UNION {{Join(d, files_by_folder[d][i]) : i \in 1..Len(files_by_folder[d])} :
           d \in DOMAIN files_by_folder}

\* File p lies in a camera folder the search covers and has an allow-listed
\* extension.
Searched(p) ==
    /\ isfile(fs, p)
    /\ \A i \in 1..(Len(p) - 1) : ~omitted(p[i])
    /\ ExtLower(Base(p)) \in DupExtensions

\* Some group of the report holds both paths.
ReportedTogether(p, q) ==
    \E g \in DOMAIN duplicates_report :
        InList(duplicates_report[g], p) /\ InList(duplicates_report[g], q)

\* C16 (lazy hashing): in the duplicate search, every file that was hashed
\* has another enumerated file of the same camera under the same grouping
\* name; a file alone in its (camera, name) bucket is never hashed.
C16_LazyHashing ==
    script \in DupScripts =>
        \A p \in hashed :
            \E q \in Enumerated : q # p /\ bucket_of(q) = bucket_of(p)

\* C16 witness: a finished search that hashed the files of one bucket and
\* left an enumerated file, alone in its bucket, unhashed.
C16_Witness ==
    /\ script \in DupScripts
    /\ pc = "done"
    /\ hashed # {}
    /\ \E p \in Enumerated :
         /\ p \notin hashed
         /\ \A q \in Enumerated : q # p => bucket_of(q) # bucket_of(p)

\* C17 (duplicate report soundness): every group dup_search reports holds
\* two or more paths, no path twice, all in the camera and under the name
\* the group is filed under, all readable and all of one content.
C17_ReportSound ==
    script = "dup_search" =>
        \A g \in DOMAIN duplicates_report :
            LET ps == duplicates_report[g]
            IN /\ Len(ps) >= 2
               /\ \A i, j \in 1..Len(ps) :
                      /\ (i # j => ps[i] # ps[j])
                      /\ fs[ps[i]].content = fs[ps[j]].content
               /\ \A i \in 1..Len(ps) :
                      /\ ps[i][1] = g[1][1]
                      /\ Base(ps[i]) = g[1][2]
                      /\ isfile(fs, ps[i]) /\ fs[ps[i]].readable

\* C17 witness: a finished dup_search that reported a group while two other
\* files of one name in one camera, of different content, are in no group.
C17_Witness ==
    /\ script = "dup_search"
    /\ pc = "done"
    /\ duplicates_report # EmptyMap
    /\ \E p, q \in hashed :
         /\ p # q /\ bucket_of(p) = bucket_of(q)
         /\ fs[p].content # fs[q].content
         /\ ~ReportedTogether(p, q)

\* C18 (duplicate report completeness): when dup_search has finished, any two
\* readable allow-listed files of one camera folder, outside the omitted
\* folders, that have the same name and the same content are together in
\* one group of the report.
C18_ReportComplete ==
    (script = "dup_search" /\ pc = "done") =>
        \A p, q \in FilesOf(fs) :
            (/\ p # q
             /\ Searched(p) /\ Searched(q)
             /\ fs[p].readable /\ fs[q].readable
             /\ p[1] = q[1]
             /\ Base(p) = Base(q)
             /\ fs[p].content = fs[q].content)
            => ReportedTogether(p, q)

\* C18 witness: a finished dup_search that reported two files of the same
\* name and content, one of them in a subfolder of the camera folder.
C18_Witness ==
    /\ script = "dup_search"
    /\ pc = "done"
    /\ \E p, q \in FilesOf(fs) :
         /\ Len(p) # Len(q)
         /\ Searched(p) /\ Searched(q)
         /\ p[1] = q[1] /\ Base(p) = Base(q)
         /\ fs[p].content = fs[q].content
         /\ ReportedTogether(p, q)

\* C19 (case-insensitive grouping), as claimed: when a duplicate search has
\* finished, two readable allow-listed files of one camera whose names are
\* equal once lower-cased and whose contents are equal are together in one
\* group of the report.  dup_search v2.4 groups by the name as it is.
C19_CaseInsensitive ==
    (script \in DupScripts /\ pc = "done") =>
        \A p, q \in FilesOf(fs) :
            (/\ p # q
             /\ Searched(p) /\ Searched(q)
             /\ fs[p].readable /\ fs[q].readable
             /\ p[1] = q[1]
             /\ Lower(Base(p)) = Lower(Base(q))
             /\ fs[p].content = fs[q].content)
            => ReportedTogether(p, q)

\* C20 (allow-list): a file whose extension is outside the script's
\* allow-list stays where it was, unchanged; it is in none of the lists
\* moved, unmapped and duplicates, the only log record about it is
\* model_sort's note that it is passed over (so no hash of it was tried), and
\* the duplicate search neither enumerates it, hashes it nor reports it.
C20_AllowList ==
    \A p \in FilesOf(fs0) :
        Base(p) = OtherName =>
            /\ fs[p] = fs0[p]
            /\ ~InList(moved, p) /\ ~InList(unmapped, p) /\ ~InList(duplicates, p)
            /\ \A i \in 1..Len(log) :
                   /\ log[i].path = p => log[i].event = "Omite"
                   /\ log[i].dest # p
            /\ p \notin Enumerated
            /\ p \notin hashed
            /\ \A g \in DOMAIN duplicates_report : ~InList(duplicates_report[g], p)

\* C20 witness: a finished model_sort run that moved a photo out of the
\* directory and passed over the file OtherName lying beside it.
C20_Witness ==
    /\ script = "model_sort"
    /\ pc = "done"
    /\ run = 1
    /\ moved # <<>>
    /\ isfile(fs, <<OtherName>>)
    /\ Logged(log, "Omite", <<OtherName>>)

\* The path p has a directory named PRIVATE on it.
UnderPrivate(p) == \E i \in 1..(Len(p) - 1) : p[i] = "PRIVATE"

\* C21 (PRIVATE exclusion): in the duplicate search no file below a directory
\* named PRIVATE, at whatever depth, is listed in files_by_folder, hashed or
\* put in a group of the report.
C21_PrivateExcluded ==
    script \in DupScripts =>
        \A p \in FilesOf(fs) :
            UnderPrivate(p) =>
                /\ p \notin Enumerated
                /\ p \notin hashed
                /\ \A g \in DOMAIN duplicates_report : ~InList(duplicates_report[g], p)

\* C21 witness: a finished dup_search that reported a group of a camera
\* while a file of the same name and content lay in the PRIVATE folder
\* inside that camera's folder.
C21_Witness ==
    /\ script = "dup_search"
    /\ pc = "done"
    /\ \E p \in FilesOf(fs), g \in DOMAIN duplicates_report :
         /\ Len(p) = 3 /\ p[2] = "PRIVATE"
         /\ p[1] = g[1][1] /\ Base(p) = g[1][2]
         /\ fs[p].readable /\ fs[p].content = g[2]

\* How many times p is in the list lst.
Occurrences(lst, p) == Cardinality({i \in 1..Len(lst) : lst[i] = p})

\* date_sort has finished with source p: the loop is past it.
DateSortPast(p) ==
    \/ pc = "done"
    \/ pc = "loop" /\ \E i \in 1..(idx - 1) : i <= Len(listing) /\ Join(Root, listing[i]) = p

\* The sources of a date_sort run whose YYYY.MM folder held a file of the
\* same name when the run began.
Collisions ==
    {p \in Sources(fsRun) :
        /\ ExtLower(Base(p)) \in PHOTO_EXTENSIONS_date
        /\ isfile(fsRun, DestinationOf(fsRun, p))}

\* C23 (filename collision in date_sort): a source whose YYYY.MM folder
\* already holds a file of the same name is, once the loop is past it, still
\* at its path unchanged and not logged as moved, is once in the list
\* duplicates, and the file in the folder is as it was, whether or not the
\* two contents are equal.
C23_CollisionKept ==
    script = "date_sort" =>
        \A p \in Collisions :
            /\ fs[DestinationOf(fsRun, p)] = fsRun[DestinationOf(fsRun, p)]
            /\ fs[p] = fsRun[p]
            /\ ~WasMoved(p)
            /\ Occurrences(duplicates, p) <= 1
            /\ DateSortPast(p) => Occurrences(duplicates, p) = 1

\* C23 witness: a finished date_sort run that left a source in place whose
\* folder held a file of the same name and of different content.
C23_Witness ==
    /\ script = "date_sort"
    /\ pc = "done"
    /\ \E p \in Collisions :
         /\ fsRun[p].content # fsRun[DestinationOf(fsRun, p)].content
         /\ InList(duplicates, p)

\* C29 (created flag of date_sort), as claimed: a folder of folders_report
\* is flagged 'created' exactly when this run made it (the run logged its
\* creation).  date_sort sets the flag to True for every folder it moves a
\* file into.
C29_CreatedFlagAccurate ==
    script = "date_sort" =>
        \A d \in DOMAIN folders_report :
            folders_report[d].created <=> Logged(log, "Creada", d)

\* A month number written with two digits.
TwoDigits(m) ==
    CASE m = 1 -> "01" [] m = 2 -> "02" [] m = 3 -> "03" [] m = 4 -> "04"
      [] m = 5 -> "05" [] m = 6 -> "06" [] m = 7 -> "07" [] m = 8 -> "08"
      [] m = 9 -> "09" [] m = 10 -> "10" [] m = 11 -> "11" [] m = 12 -> "12"

\* The folder YYYY.MM of month m of year y.
FolderOfMonth(y, m) == ToString(y) \o "." \o TwoDigits(m)

\* C22 (month boundary rule of date_sort): a capture date on the 1st before
\* 08:00 is given the folder YYYY.MM of the month before (December of the
\* year before for 1 January); every other capture date, the 1st at 08:00 or
\* later included, is given the folder of its own month; MM has two digits.
C22_MonthBoundary ==
    (script = "date_sort" /\ pc = "done" /\ fecha_captura # NoDate) =>
        carpeta_destino =
            IF fecha_captura.day = 1 /\ fecha_captura.hour < 8
            THEN IF fecha_captura.month = 1
                 THEN FolderOfMonth(fecha_captura.year - 1, 12)
                 ELSE FolderOfMonth(fecha_captura.year, fecha_captura.month - 1)
            ELSE FolderOfMonth(fecha_captura.year, fecha_captura.month)

\* C22 witness: the capture date 1 January 2024, 07:00, was given the folder
\* 2023.12.
C22_Witness ==
    /\ pc = "done"
    /\ fecha_captura = [year |-> 2024, month |-> 1, day |-> 1, hour |-> 7]
    /\ carpeta_destino = "2023.12"

\* C27 (fingerprint memoization), as claimed: within one run sha256_of_file
\* is called at most once on any path.  The duplicate check of model_sort
\* and raw_sort hashes the files of the destination folder anew for every
\* source it checks.
C27_HashedOnce == \A p \in DOMAIN hash_calls : hash_calls[p] <= 1

\* The part of C27 about the duplicate search, which does hold: it hashes
\* no path twice.
C27_SearchHashesOnce == script \in DupScripts => C27_HashedOnce

\* A source of model_sort that carries no folder: it is on the allow-list and
\* its Model tag is absent or is no key of MODEL_TO_FOLDER.
NoFolderFor(f, p) ==
    /\ ExtLower(Base(p)) \in PHOTO_EXTENSIONS_model
    /\ \/ f[p].model = NoModel
       \/ f[p].model \notin DOMAIN MODEL_TO_FOLDER

\* The folder of a source of model_sort whose model is mapped.
FolderFor(f, p) == <<sanitize_folder_name(MODEL_TO_FOLDER[f[p].model])>>

\* C24 (unmapped model in model_sort): a file whose Model tag is absent or
\* unmapped stays at its path with its content, is never moved and never
\* passed to sha256_of_file, is in the list unmapped once the loop is past
\* it, and no directory exists on its account: every directory that was not
\* there before the first run is the folder of a source whose model is mapped.
C24_UnmappedLeftAlone ==
    script = "model_sort" =>
        /\ \A p \in Sources(fsRun) : NoFolderFor(fsRun, p) =>
               /\ fs[p] = fsRun[p]
               /\ ~WasMoved(p)
               /\ ~InList(moved, p)
               /\ p \notin DOMAIN hash_calls
               /\ DateSortPast(p) /\ pc # "aborted" => InList(unmapped, p)
        /\ \A d \in dirs :
               \/ d = Root
               \/ \E q \in FilesOf(fs0) : d \in Ancestors(q)
               \/ \E q \in FilesOf(fs0) :
                      /\ Parent(q) = Root
                      /\ ~NoFolderFor(fs0, q)
                      /\ ExtLower(Base(q)) \in PHOTO_EXTENSIONS_model
                      /\ d = FolderFor(fs0, q)

\* A finished run that left a file of an unmapped model in place and moved
\* the other file into a folder it made.
C24_Witness ==
    /\ script = "model_sort"
    /\ pc = "done"
    /\ \E p \in Sources(fsRun) :
          /\ NoFolderFor(fsRun, p) /\ fsRun[p].model # NoModel
          /\ InList(unmapped, p)
    /\ Len(moved) > 0
    /\ \E d \in dirs : d # Root /\ \A q \in FilesOf(fs0) : d \notin Ancestors(q)

\* C25 (missing ExifTool), as claimed: when the exiftool binary is not found,
\* scan_exif, model_sort and date_sort stop at the first file they would read
\* EXIF data from: no file is moved and at most one file is counted or
\* listed.  model_sort and date_sort catch the failure per file and go on:
\* model_sort lists every file as unmapped, date_sort files every photo under
\* the date of its time stamp.
C25_MissingExiftoolStops ==
    ~exiftool =>
        /\ fs = fs0
        /\ processed_count <= 1
        /\ Len(moved) + Len(unmapped) + Len(duplicates) <= 1
        /\ processed_count = 1 => pc \in {"exited", "aborted"}

\* What holds of scan_exif alone: the first call of process_file without the
\* binary ends the script, with no model recorded.
C25_ScanExits ==
    (script = "scan_exif" /\ ~exiftool) =>
        /\ processed_count <= 1
        /\ models = {}
        /\ processed_count = 1 => pc = "exited"

\* The extensions of the files of the tree that the scan does not leave out.
ExtensionsPresent ==
    {ExtLower(Base(p)) : p \in {q \in FilesOf(fs) : ExtLower(Base(q)) \notin SKIP_EXTENSIONS}}

\* C26 (inventory completeness of scan_exif), as claimed: after the scan the
\* set models holds the Model tag of every file of the tree that has one, and
\* the set extensions the extension of every file that is not left out.
\* Phase 2 passes only the first file of each extension of a model folder to
\* process_file, so the tag of a later file of that extension is not read.
C26_InventoryComplete ==
    (script = "scan_exif" /\ pc = "done") =>
        /\ \A p \in FilesOf(fs) : fs[p].model # NoModel => fs[p].model \in models
        /\ ExtensionsPresent \subseteq extensions

\* What holds of the scan: the set extensions is exactly the extensions of
\* the files not left out, and every model recorded is the tag of some file.
C26_ExtensionsComplete ==
    (script = "scan_exif" /\ pc = "done") =>
        /\ extensions = ExtensionsPresent
        /\ \A m \in models : \E p \in FilesOf(fs) : fs[p].model = m

\* C28 (fingerprint equality): once sha256_of_file has returned for two
\* readable files, the two digests are equal exactly when the files hold the
\* same bytes, whatever their paths and whatever their length (empty, a
\* multiple of the chunk size or not); and the digest of a file is that of
\* its whole content fed at once.
C28_FingerprintEquality ==
    script = "sha256_of_file" =>
        /\ \A p, q \in DOMAIN digests : digests[p] = digests[q] <=> data[p] = data[q]
        /\ \A p \in DOMAIN digests : digests[p] = h_hexdigest(h_update(<<>>, data[p]))

\* Both files are hashed; they hold the same bytes at different paths, more
\* than two chunks and not a whole number of chunks.
C28_Witness ==
    /\ script = "sha256_of_file"
    /\ DOMAIN digests = HashedPaths
    /\ \E p, q \in HashedPaths :
          /\ p # q
          /\ data[p] = data[q]
          /\ Len(data[p]) > 2 * ChunkSize
          /\ Len(data[p]) % ChunkSize # 0
          /\ digests[p] = digests[q]

\* The number of paths in the reported groups gs.
RECURSIVE paths_in(_)
paths_in(gs) ==
    IF gs = {} THEN 0
    ELSE LET g == CHOOSE x \in gs : TRUE
         IN Len(duplicates_report[g]) + paths_in(gs \ {g})

\* The reported (name, hash) groups of camera cam.
groups_of(cam) == {g \in DOMAIN duplicates_report : g[1][1] = cam}

\* C30 (duplicate-file metric of dup_search), as claimed: in the report,
\* 'Archivos duplicados' is the number of paths in all reported groups, the
\* 'Archivos dup.' of a camera the number of paths in its groups, and
\* 'Grupos de duplicados' the number of reported (name, hash) groups.
\* generar_reporte_pdf takes len() one level too high in the nested dict:
\* it counts names for the groups and hashes for the files.
C30_DuplicateMetrics ==
    (script = "dup_search" /\ pdf_metrics.written) =>
        /\ pdf_metrics.total_dups = paths_in(DOMAIN duplicates_report)
        /\ \A cam \in DOMAIN pdf_metrics.dup_files :
               pdf_metrics.dup_files[cam] = paths_in(groups_of(cam))
        /\ pdf_metrics.total_groups = Cardinality(DOMAIN duplicates_report)

\* What the figures are: 'Archivos duplicados' is the number of reported
\* (name, hash) groups, 'Grupos de duplicados' the number of (camera, name)
\* pairs that have a group.
C30_WhatIsPrinted ==
    (script = "dup_search" /\ pdf_metrics.written) =>
        /\ pdf_metrics.total_dups = Cardinality(DOMAIN duplicates_report)
        /\ \A cam \in DOMAIN pdf_metrics.dup_files :
               pdf_metrics.dup_files[cam] = Cardinality(groups_of(cam))
        /\ pdf_metrics.total_groups = Cardinality({g[1] : g \in DOMAIN duplicates_report})

=============================================================================
